---- MODULE Spec2Model ----
(***************************************************************************)
(* The CAPTCHA solve loop of playwright-captcha-solver: solveCaptchas,     *)
(* its re-scan / session reset, and the executor handleCaptchaAction.      *)
(* The repository holds two revisions of solveCaptchas:                    *)
(*   "solver"  - src/src/solver/solve-captcha.ts                           *)
(*   "part004" - src/unnamed/part_004                                      *)
(* Both are modelled; `revision` says which one a behaviour runs.          *)
(* One step of the model is one whole cycle of the while loop.             *)
(***************************************************************************)
EXTENDS Integers, Sequences, FiniteSets, TLC

(***************************************************************************)
(* Program constant and the bounds of the model.                           *)
(***************************************************************************)
maxAttempts == 25

\* longest detection list a scan returns
MaxFrames == 2
\* most actions the Oracle confirms between two session resets
MaxPast == 1

(***************************************************************************)
(* Detections (CaptchaDetectionResult).  A detection is identified by the  *)
(* src of its iframe, its vendor and its type.                             *)
(***************************************************************************)
Range(s) == { s[i] : i \in DOMAIN s }

Anchor == [src |-> "/recaptcha/api2/anchor", vendor |-> "recaptcha", type |-> "checkbox"]
Bframe == [src |-> "/recaptcha/api2/bframe", vendor |-> "recaptcha", type |-> "image"]
HCaptcha == [src |-> "hcaptcha.com", vendor |-> "hcaptcha", type |-> "checkbox"]

\* The CAPTCHA iframes of the page, in the order a scan lists them.  A scan
\* keeps the iframes that are visible at that moment (getCaptchaIframes), so
\* from one scan to the next any of them can come or go.
PageOrder == << Anchor, Bframe, HCaptcha >>

\* the detections the list functions are applied to
Detections == Range(PageOrder)

\* the value of captchaFrameData after `list[0]` of an empty list
Undefined == [src |-> "undefined", vendor |-> "-", type |-> "-"]

\* the results a scan (waitForCaptchaIframes) can return
Scans ==
    { s \in UNION { [1..n -> Range(PageOrder)] : n \in 0..MaxFrames } :
        \A i, j \in DOMAIN s :
            i < j => \E k, l \in DOMAIN PageOrder :
                       k < l /\ PageOrder[k] = s[i] /\ PageOrder[l] = s[j] }

\* content-frame references on which a method call throws a TypeError
Nullish == { "null", "undefined" }

(***************************************************************************)
(* Actions (CaptchaAction).  Absent fields hold "-".                       *)
(***************************************************************************)
NoLoc == [x |-> "-", y |-> "-"]
Loc5050 == [x |-> "50", y |-> "50"]
Loc5248 == [x |-> "52", y |-> "48"]
Loc525 == [x |-> "52.5", y |-> "48"]

CaptchaActionState == { "creatingAction", "adjustAction", "actionConfirmed" }

NullAction ==
    [action |-> "null", location |-> NoLoc, value |-> "-", actionState |-> "-"]

CaptchaSolved ==
    [action |-> "captcha_solved", location |-> NoLoc, value |-> "-",
     actionState |-> "-"]

Click(loc, st) ==
    [action |-> "click", location |-> loc, value |-> "-", actionState |-> st]

Type(loc, v, st) ==
    [action |-> "type", location |-> loc, value |-> v, actionState |-> st]

\* The answers the Oracle can give.  queryWithImage only JSON-parses the
\* model's text, so an action type or an actionState outside the union
\* ("hover", "bogus") reaches the loop as well.
OracleAnswers ==
    { Click(Loc5050, "creatingAction"), Click(Loc5248, "adjustAction"),
      Click(Loc5248, "actionConfirmed"),
      [action |-> "hover", location |-> Loc5050, value |-> "-",
       actionState |-> "actionConfirmed"],
      Click(Loc5050, "bogus"),
      CaptchaSolved }

\* the value of `result` before the call has run
NotCalled == [called |-> FALSE]

VARIABLES
    revision,         \* which revision of solveCaptchas runs
    pc,               \* "start", "loop", "returned", "thrown"
    captchaFrames,    \* the detection list of the last accepted scan
    captchaFrameData, \* the active detection
    contentFrame,     \* the Frame handed to the overlay and the executor
    pendingAction,
    pastActions,
    isSolved,
    attempts,
    \* history variables (not program state)
    step,             \* the branch the last cycle took
    scanDiffered,     \* the last re-scan differed from captchaFrames (identity rule)
    frameGone,        \* the last re-scan found the active iframe gone
    didReset,         \* the last cycle reset the session
    stable,           \* every re-scan so far returned the list captchaFrames
    performed,        \* actions the executor carried out since the last reset
    \* the next two are kept only while the frame set is stable
    script,           \* Oracle answers so far follow the end-to-end scenario
    allCreating,      \* every Oracle answer so far was a creatingAction
    \* the page as the loop left it
    dom,              \* the documents of the main page and of the content frame
    captchaScreenshot, \* what the screenshot handed to the Oracle shows
    ops,              \* history: the driver and Oracle calls of the last cycle
    \* one call of an exported function on its own (CallSpec)
    fn,               \* the function called
    args,             \* its arguments
    result            \* NotCalled, then what the call returned or threw

vars == << revision, pc, captchaFrames, captchaFrameData, contentFrame,
           pendingAction, pastActions, isSolved, attempts, step, scanDiffered,
           frameGone, didReset, stable, performed, script, allCreating,
           dom, captchaScreenshot, ops, fn, args, result >>

(***************************************************************************)
(* Pure helpers.                                                           *)
(***************************************************************************)
\* list[0] in JavaScript: undefined for an empty list
First(s) == IF Len(s) = 0 THEN Undefined ELSE s[1]

RECURSIVE Filter(_, _)
Filter(s, keep) ==
    IF Len(s) = 0 THEN << >>
    ELSE IF Head(s) \in keep THEN << Head(s) >> \o Filter(Tail(s), keep)
    ELSE Filter(Tail(s), keep)

\* (a diff that tells frames apart by vendor only)
getNewCaptchaFramesByVendor(oldCaptchas, newCaptchas) ==
    IF Len(oldCaptchas) = 0 THEN newCaptchas
    ELSE SelectSeq(newCaptchas,
                   LAMBDA n : \A o \in Range(oldCaptchas) : n.vendor # o.vendor)

\* getNewCaptchaFrames: the frames of newCaptchas that match no old frame on
\* (src, vendor, type), in the order of newCaptchas; newCaptchas itself when
\* oldCaptchas is empty.
getNewCaptchaFrames(oldCaptchas, newCaptchas) ==
    IF Len(oldCaptchas) = 0 THEN newCaptchas
    ELSE Filter(newCaptchas, Range(newCaptchas) \ Range(oldCaptchas))

\* The two detection lists differ as sets under the identity rule.
Differs(oldCaptchas, newCaptchas) == Range(oldCaptchas) # Range(newCaptchas)

\* The test that starts a session reset after the re-scan.
SessionReset(rev, oldCaptchas, newCaptchas) ==
    IF rev = "solver"
    THEN Len(newCaptchas) # Len(oldCaptchas)
    ELSE /\ Len(newCaptchas) # Len(oldCaptchas)
         /\ Len(getNewCaptchaFrames(oldCaptchas, newCaptchas)) > 0

\* getContentFrame (part004): the page's frame whose url is the iframe's src,
\* undefined when page.frames() holds no such frame (`found` is the page's
\* answer).  The solver revision never looks the frame up: it holds null.
getContentFrame(rev, detection, found) ==
    IF rev = "solver" THEN "null"
    ELSE IF found THEN detection.src ELSE "undefined"

\* (a chain that sends an unconfirmed action to the executor)
BranchSkipsConfirmation(p) ==
    IF p = NullAction THEN "propose"
    ELSE IF p.action = "captcha_solved" THEN "solved"
    ELSE IF p.actionState = "adjustAction" THEN "confirm"
    ELSE IF p.actionState \in { "creatingAction", "actionConfirmed" } THEN "execute"
    ELSE "none"

\* The branch of the if / else-if chain a cycle takes.
Branch(p) ==
    IF p = NullAction THEN "propose"
    ELSE IF p.action = "captcha_solved" THEN "solved"
    ELSE IF p.actionState \in { "creatingAction", "adjustAction" } THEN "confirm"
    ELSE IF p.actionState = "actionConfirmed" THEN "execute"
    ELSE "none"

\* (a confirm step that never takes the Oracle's adjusted coordinates)
AfterConfirmKeepsFirstProposal(rev, previousAction, answer) ==
    IF answer.action # "captcha_solved"
    THEN [previousAction EXCEPT !.actionState = answer.actionState]
    ELSE answer

\* pendingAction after Confirm-or-adjust answered `answer` for `previousAction`.
AfterConfirm(rev, previousAction, answer) ==
    IF /\ rev = "solver"
       /\ answer.action # "captcha_solved"
       /\ answer.actionState = "actionConfirmed"
    THEN [previousAction EXCEPT !.actionState = "actionConfirmed"]
    ELSE answer

\* The while condition.
LoopCondition(solved, att) == ~solved /\ att < maxAttempts

\* (a loop that forgets to count the cycle)
AttemptsNotCounted(att) == att

\* attempts++
NextAttempts(att) == att + 1

\* (a loop that forgets to record the executed action)
pushNothing(list, action) == list

\* pastActions.push(pendingAction)
push(list, action) == Append(list, action)

\* The re-scan found the active iframe gone: no frame at all, or fewer
\* frames than before and none of them new.
FrameLost(oldCaptchas, newCaptchas) ==
    \/ Len(newCaptchas) = 0
    \/ /\ Len(newCaptchas) < Len(oldCaptchas)
       /\ Len(getNewCaptchaFrames(oldCaptchas, newCaptchas)) = 0

(***************************************************************************)
(* The executor.  A result is the driver events issued, whether the        *)
(* action was carried out completely, and whether the call threw.          *)
(***************************************************************************)
Ev(name, at) == [ev |-> name, at |-> at]

ExecResult(events, done, threw) ==
    [events |-> events, done |-> done, threw |-> threw]

\* parseInt on the coordinate strings an action can carry: the leading
\* integer of the text.
parseInt(text) ==
    CASE text = "0" -> 0
      [] text = "48" -> 48
      [] text = "50" -> 50
      [] text = "52" -> 52
      [] text = "52.5" -> 52
      [] text = "100" -> 100
      [] text = "150" -> 150
      [] text = "-50" -> 0 - 50
      [] text = "12.7" -> 12
      [] text = "33px" -> 33

\* parseFloat on the same strings: the leading decimal number of the text,
\* in tenths.
parseFloat(text) ==
    CASE text = "0" -> 0
      [] text = "48" -> 480
      [] text = "50" -> 500
      [] text = "52" -> 520
      [] text = "52.5" -> 525
      [] text = "100" -> 1000
      [] text = "150" -> 1500
      [] text = "-50" -> 0 - 500
      [] text = "12.7" -> 127
      [] text = "33px" -> 330

\* an absent bounding box (boundingBox() returned null) and the null the
\* mapper answers with
NoBox == [box |-> "null"]
NoCoordinates == [coordinates |-> "null"]

\* (a mapper that clamps the percentages to 0..100)
getPageCoordinatesClamped(iframeBoundingBox, xPercentage, yPercentage) ==
    LET clamp(v) == IF v < 0 THEN 0 ELSE IF v > 100 THEN 100 ELSE v
    IN  IF iframeBoundingBox = NoBox THEN NoCoordinates
        ELSE [x |-> 100 * iframeBoundingBox.x
                      + iframeBoundingBox.width * clamp(xPercentage),
              y |-> 100 * iframeBoundingBox.y
                      + iframeBoundingBox.height * clamp(yPercentage)]

\* getPageCoordinatesFromIframePercentage: null without a bounding box,
\* otherwise box.x + box.width * (xPercentage / 100), and the same for y.
\* Page coordinates are kept exactly, in hundredths of a pixel.
getPageCoordinatesFromIframePercentage(iframeBoundingBox, xPercentage, yPercentage) ==
    IF iframeBoundingBox = NoBox THEN NoCoordinates
    ELSE [x |-> 100 * iframeBoundingBox.x + iframeBoundingBox.width * xPercentage,
          y |-> 100 * iframeBoundingBox.y + iframeBoundingBox.height * yPercentage]

\* the point at which labelCaptchaAction draws the marker of a location on a
\* box, in thousandths of a pixel: the mapper applied to parseFloat of the
\* coordinate strings.
labelCoordinates(boundingBox, location) ==
    IF boundingBox = NoBox THEN NoCoordinates
    ELSE [x |-> 1000 * boundingBox.x + boundingBox.width * parseFloat(location.x),
          y |-> 1000 * boundingBox.y + boundingBox.height * parseFloat(location.y)]

\* the bounding box of a visible iframe
IframeBox == [x |-> 100, y |-> 200, width |-> 300, height |-> 400]

\* what getElementAtPoint and elem.click() can do at a point: a clickable
\* element, an element whose click() throws, or no element
Hits == { "element", "elementFails", "none" }

\* (a click that gives up when the direct click on the element throws)
handleClickNoFallback(frame, boundingBox, location, hit) ==
    LET clickCoordinates ==
            getPageCoordinatesFromIframePercentage(
                boundingBox, parseInt(location.x), parseInt(location.y))
    IN  IF clickCoordinates = NoCoordinates THEN ExecResult(<< >>, FALSE, FALSE)
        ELSE IF frame \in Nullish
        THEN ExecResult(<< Ev("moveTo", clickCoordinates) >>, FALSE, TRUE)
        ELSE IF hit = "element"
        THEN ExecResult(<< Ev("moveTo", clickCoordinates),
                           Ev("elem.click", clickCoordinates) >>, TRUE, FALSE)
        ELSE IF hit = "elementFails"
        THEN ExecResult(<< Ev("moveTo", clickCoordinates),
                           Ev("elem.click throws", clickCoordinates) >>,
                        FALSE, FALSE)
        ELSE ExecResult(<< Ev("moveTo", clickCoordinates),
                           Ev("mouse.click", clickCoordinates) >>, TRUE, FALSE)

\* handleClick: no event when the coordinates are unavailable (bounding box
\* null); otherwise the pointer moves, the element under the point is looked
\* up in the frame (a TypeError on a null frame) and one click is made: on
\* the element, or at the coordinates when there is no element or its
\* click() throws.
handleClick(frame, boundingBox, location, hit) ==
    LET clickCoordinates ==
            getPageCoordinatesFromIframePercentage(
                boundingBox, parseInt(location.x), parseInt(location.y))
    IN  IF clickCoordinates = NoCoordinates THEN ExecResult(<< >>, FALSE, FALSE)
        ELSE IF frame \in Nullish
        THEN ExecResult(<< Ev("moveTo", clickCoordinates) >>, FALSE, TRUE)
        ELSE IF hit = "element"
        THEN ExecResult(<< Ev("moveTo", clickCoordinates),
                           Ev("elem.click", clickCoordinates) >>, TRUE, FALSE)
        ELSE IF hit = "elementFails"
        THEN ExecResult(<< Ev("moveTo", clickCoordinates),
                           Ev("elem.click throws", clickCoordinates),
                           Ev("mouse.click", clickCoordinates) >>, TRUE, FALSE)
        ELSE ExecResult(<< Ev("moveTo", clickCoordinates),
                           Ev("mouse.click", clickCoordinates) >>, TRUE, FALSE)

\* (a multiClick loop that clicks in the order of the index fields)
RECURSIVE clickEachByIndex(_, _, _, _)
clickEachByIndex(frame, boundingBox, locations, hit) ==
    IF Len(locations) = 0 THEN ExecResult(<< >>, TRUE, FALSE)
    ELSE LET least == CHOOSE i \in DOMAIN locations :
                        \A j \in DOMAIN locations :
                            locations[i].index <= locations[j].index
             others == SubSeq(locations, 1, least - 1)
                       \o SubSeq(locations, least + 1, Len(locations))
             c == handleClick(frame, boundingBox, locations[least], hit)
         IN  IF c.threw THEN c
             ELSE LET rest == clickEachByIndex(frame, boundingBox, others, hit)
                  IN  ExecResult(c.events \o rest.events, c.done /\ rest.done,
                                 rest.threw)

\* the for loop of the multiClick case: one handleClick per location, each
\* awaited before the next
RECURSIVE clickEach(_, _, _, _)
clickEach(frame, boundingBox, locations, hit) ==
    IF Len(locations) = 0 THEN ExecResult(<< >>, TRUE, FALSE)
    ELSE LET c == handleClick(frame, boundingBox, Head(locations), hit)
         IN  IF c.threw THEN c
             ELSE LET rest == clickEach(frame, boundingBox, Tail(locations), hit)
                  IN  ExecResult(c.events \o rest.events, c.done /\ rest.done,
                                 rest.threw)

\* (an executor that does not look at actionState)
handleCaptchaActionUnchecked(frame, boundingBox, action, hit) ==
    IF action.action = "captcha_solved" THEN ExecResult(<< >>, FALSE, FALSE)
    ELSE IF action.action \in { "click", "type" }
    THEN handleClick(frame, boundingBox, action.location, hit)
    ELSE ExecResult(<< >>, FALSE, FALSE)

\* (a drag that does not release the button)
handleCaptchaActionDragsWithoutRelease(frame, boundingBox, action, hit) ==
    IF action.action = "captcha_solved" THEN ExecResult(<< >>, FALSE, FALSE)
    ELSE IF action.actionState # "actionConfirmed"
    THEN ExecResult(<< >>, FALSE, FALSE)
    ELSE IF action.action = "drag"
    THEN LET startCoords ==
                 getPageCoordinatesFromIframePercentage(
                     boundingBox, parseInt(action.startLocation.x),
                     parseInt(action.startLocation.y))
             endCoords ==
                 getPageCoordinatesFromIframePercentage(
                     boundingBox, parseInt(action.endLocation.x),
                     parseInt(action.endLocation.y))
         IN  IF startCoords = NoCoordinates \/ endCoords = NoCoordinates
             THEN ExecResult(<< >>, FALSE, FALSE)
             ELSE ExecResult(<< Ev("moveTo", startCoords),
                                Ev("mouse.down", startCoords),
                                Ev("moveTo", endCoords) >>, TRUE, FALSE)
    ELSE ExecResult(<< >>, FALSE, FALSE)

\* (an executor that presses the button before it has moved to the start)
handleCaptchaActionPressesFirst(frame, boundingBox, action, hit) ==
    IF action.action = "captcha_solved" THEN ExecResult(<< >>, FALSE, FALSE)
    ELSE IF action.actionState # "actionConfirmed"
    THEN ExecResult(<< >>, FALSE, FALSE)
    ELSE IF action.action = "click"
    THEN handleClick(frame, boundingBox, action.location, hit)
    ELSE IF action.action = "multiClick"
    THEN clickEach(frame, boundingBox, action.locations, hit)
    ELSE IF action.action = "drag"
    THEN LET startCoords ==
                 getPageCoordinatesFromIframePercentage(
                     boundingBox, parseInt(action.startLocation.x),
                     parseInt(action.startLocation.y))
             endCoords ==
                 getPageCoordinatesFromIframePercentage(
                     boundingBox, parseInt(action.endLocation.x),
                     parseInt(action.endLocation.y))
         IN  IF startCoords = NoCoordinates \/ endCoords = NoCoordinates
             THEN ExecResult(<< >>, FALSE, FALSE)
             ELSE ExecResult(<< Ev("mouse.down", startCoords),
                                Ev("moveTo", startCoords),
                                Ev("moveTo", endCoords),
                                Ev("mouse.up", endCoords) >>, TRUE, FALSE)
    ELSE ExecResult(<< >>, FALSE, FALSE)

\* Refuses a solved or unconfirmed action; click and type go through
\* handleClick (type then types the value, also after a skipped click);
\* multiClick clicks each location; drag presses at the start and releases
\* at the end, or does nothing without coordinates; any other action type
\* is only logged.
handleCaptchaAction(frame, boundingBox, action, hit) ==
    IF action.action = "captcha_solved" THEN ExecResult(<< >>, FALSE, FALSE)
    ELSE IF action.actionState # "actionConfirmed"
    THEN ExecResult(<< >>, FALSE, FALSE)
    ELSE IF action.action = "click"
    THEN handleClick(frame, boundingBox, action.location, hit)
    ELSE IF action.action = "type"
    THEN LET c == handleClick(frame, boundingBox, action.location, hit)
         IN  IF c.threw THEN c
             ELSE ExecResult(c.events
                             \o << Ev("keyboard.type", [value |-> action.value]) >>,
                             c.done, FALSE)
    ELSE IF action.action = "multiClick"
    THEN clickEach(frame, boundingBox, action.locations, hit)
    ELSE IF action.action = "drag"
    THEN LET startCoords ==
                 getPageCoordinatesFromIframePercentage(
                     boundingBox, parseInt(action.startLocation.x),
                     parseInt(action.startLocation.y))
             endCoords ==
                 getPageCoordinatesFromIframePercentage(
                     boundingBox, parseInt(action.endLocation.x),
                     parseInt(action.endLocation.y))
         IN  IF startCoords = NoCoordinates \/ endCoords = NoCoordinates
             THEN ExecResult(<< >>, FALSE, FALSE)
             ELSE ExecResult(<< Ev("moveTo", startCoords),
                                Ev("mouse.down", startCoords),
                                Ev("moveTo", endCoords),
                                Ev("mouse.up", endCoords) >>, TRUE, FALSE)
    ELSE ExecResult(<< >>, FALSE, FALSE)

\* what a call hands back: a value, or an error thrown
Returned(value) == [threw |-> FALSE, value |-> value]
Threw == [threw |-> TRUE, value |-> << >>]

(***************************************************************************)
(* Overlays.  A document is the other elements of its body, whether the    *)
(* container captcha-highlight-container exists, and the overlays inside   *)
(* the container.                                                          *)
(***************************************************************************)
Document(body, container, overlays) ==
    [body |-> body, container |-> container, overlays |-> overlays]

\* the marker (circle or circles, arrow, label) drawn for an action
Label(action) == [kind |-> "label", of |-> action]

\* the red border getElementAtPoint draws around the element it resolved
ElementBox == [kind |-> "elementBox", of |-> NullAction]

\* container.remove(): the container goes with everything inside it
remove(document) == [document EXCEPT !.container = FALSE, !.overlays = << >>]

\* (a removal that calls container.remove() without testing for the container)
removeHighlightsUnguarded(document) ==
    IF document.container THEN Returned(remove(document)) ELSE Threw

\* removeHighlights (part_010): on the main page's document
removeHighlights(document) ==
    Returned(IF document.container THEN remove(document) ELSE document)

\* removeHighlightsOnFrame (highlighter.ts): the same inside the frame's
\* document; frame.evaluate is a TypeError on a null frame
removeHighlightsOnFrame(frame, document) ==
    IF frame \in Nullish THEN Threw
    ELSE Returned(IF document.container THEN remove(document) ELSE document)

\* getFramePosition when the frame has left the page: frame.frameElement()
\* throws
Detached == [box |-> "detached"]

\* ensureHighlightContainer, and the same lines of labelCaptchaAction and
\* getElementAtPoint: the container is created when it is missing
ensureHighlightContainer(document) == [document EXCEPT !.container = TRUE]

\* the marker of a click, type or drag is appended to the container; any
\* other action draws nothing
labelCaptchaAction(document, action) ==
    IF action.action \in { "click", "type", "drag" }
    THEN [document EXCEPT !.overlays = Append(@, Label(action))]
    ELSE document

\* labelCaptchaActionOnFrame.  highlighter.ts draws inside the frame's
\* document: nothing for a null action, otherwise the container and the
\* marker.  part_010 draws on the main page: the container first, then
\* nothing when the frame has no bounding box, when the action is null or
\* captcha_solved; it throws when the frame is undefined or detached.
labelCaptchaActionOnFrame(rev, frame, frameBox, action, documents) ==
    IF frame \in Nullish THEN Threw
    ELSE IF rev = "solver"
    THEN IF action = NullAction THEN Returned(documents)
         ELSE Returned([documents EXCEPT
                          !.frame = labelCaptchaAction(
                                        ensureHighlightContainer(@), action)])
    ELSE IF frameBox = Detached THEN Threw
    ELSE LET ensured == [documents EXCEPT !.page = ensureHighlightContainer(@)]
         IN  IF frameBox = NoBox \/ action = NullAction
                \/ action.action = "captcha_solved"
             THEN Returned(ensured)
             ELSE Returned([ensured EXCEPT !.page = labelCaptchaAction(@, action)])

\* getElementAtPoint draws a box in the frame's document around every
\* element it resolves: one for each direct click the executor tried
RECURSIVE highlightElements(_, _)
highlightElements(document, events) ==
    IF Len(events) = 0 THEN document
    ELSE highlightElements(
             IF Head(events).ev \in { "elem.click", "elem.click throws" }
             THEN [ensureHighlightContainer(document) EXCEPT
                     !.overlays = Append(@, ElementBox)]
             ELSE document,
             Tail(events))

\* the main page and a content frame before anything was drawn
FreshDocument == Document(<< "challenge" >>, FALSE, << >>)
FreshPage == [page |-> FreshDocument, frame |-> FreshDocument]

\* A screenshot: the iframe it shows, the overlays visible on it and the
\* executed actions whose effect it shows.  "" is the empty screenshot.
Screenshot(of, overlays, shows) == [of |-> of, overlays |-> overlays, shows |-> shows]
NoScreenshot == Screenshot("", << >>, << >>)

\* screenshotCaptcha: the empty string when the iframe has no bounding box
\* (it is not visible), otherwise the clip of the page over the iframe: the
\* iframe's own document with what the main page draws over it.
screenshotCaptcha(detection, visible, documents, shows) ==
    IF ~visible THEN NoScreenshot
    ELSE Screenshot(detection.src,
                    documents.page.overlays \o documents.frame.overlays, shows)

\* One call in the history of a cycle, in the order the calls were started:
\* `on` is the variable it is given, `settled` how it had ended when the next
\* call started.  The loop addresses everything through its variables.
Op(op, on, settled) == [op |-> op, on |-> on, settled |-> settled]

\* (a call that is started and not awaited)
notAwaited(op, on, threw) == << Op(op, on, "pending") >>

\* an awaited call has returned or thrown before the next statement runs
await(op, on, threw) ==
    << Op(op, on, IF threw THEN "threw" ELSE "returned") >>

(***************************************************************************)
(* Detection: classification of an iframe src, the scan of a page and the  *)
(* bounded wait.                                                           *)
(***************************************************************************)
\* the iframe srcs the scan is tried on
SrcAnchor == "https://www.google.com/recaptcha/api2/anchor?k=K"
SrcBframe == "https://www.google.com/recaptcha/api2/bframe?k=K"
SrcInvisible == "https://www.google.com/recaptcha/enterprise/anchor?size=invisible"
SrcRecaptchaOther == "https://www.google.com/recaptcha/api2/demo"
SrcHCaptcha == "https://newassets.hcaptcha.com/captcha/v1/frame"
SrcCloudflare == "https://challenges.cloudflare.com/cdn-cgi/challenge-platform/turnstile/if"
SrcTurnstileOnly == "https://example.com/turnstile/widget"
SrcPlatformOnly == "https://example.com/cdn-cgi/challenge-platform/h/g"
SrcOther == "https://example.com/other"
SrcEmpty == ""
\* srcs in which the patterns of several branches occur
SrcBframeInvisible ==
    "https://www.google.com/recaptcha/enterprise/bframe?from=/anchor&size=invisible"
SrcRecaptchaOnHCaptcha == "https://hcaptcha.com/recaptcha/api2/demo"
SrcAnchorViaHCaptcha == "https://www.google.com/recaptcha/api2/anchor?co=hcaptcha.com"
SrcHCaptchaTurnstile == "https://hcaptcha.com/turnstile"

Srcs ==
    { SrcAnchor, SrcBframe, SrcInvisible, SrcRecaptchaOther, SrcHCaptcha,
      SrcCloudflare, SrcTurnstileOnly, SrcPlatformOnly, SrcOther, SrcEmpty,
      SrcBframeInvisible, SrcRecaptchaOnHCaptcha, SrcAnchorViaHCaptcha,
      SrcHCaptchaTurnstile }

\* String.prototype.includes (and the CSS selector [src*="..."]) on these
\* srcs, for the substrings the code looks for
includes(src, part) ==
    CASE part = "/recaptcha/" ->
           src \in { SrcAnchor, SrcBframe, SrcInvisible, SrcRecaptchaOther,
                     SrcBframeInvisible, SrcRecaptchaOnHCaptcha,
                     SrcAnchorViaHCaptcha }
      [] part = "/recaptcha/api2" ->
           src \in { SrcAnchor, SrcBframe, SrcRecaptchaOther,
                     SrcRecaptchaOnHCaptcha, SrcAnchorViaHCaptcha }
      [] part = "/recaptcha/enterprise" ->
           src \in { SrcInvisible, SrcBframeInvisible }
      [] part = "/bframe" -> src \in { SrcBframe, SrcBframeInvisible }
      [] part = "/anchor" ->
           src \in { SrcAnchor, SrcInvisible, SrcBframeInvisible,
                     SrcAnchorViaHCaptcha }
      [] part = "size=invisible" -> src \in { SrcInvisible, SrcBframeInvisible }
      [] part = "hcaptcha.com" ->
           src \in { SrcHCaptcha, SrcRecaptchaOnHCaptcha, SrcAnchorViaHCaptcha,
                     SrcHCaptchaTurnstile }
      [] part = "turnstile" ->
           src \in { SrcCloudflare, SrcTurnstileOnly, SrcHCaptchaTurnstile }
      [] part = "challenges.cloudflare.com" -> src = SrcCloudflare
      [] part = "cdn-cgi/challenge-platform" ->
           src \in { SrcCloudflare, SrcPlatformOnly }

\* the null detectCaptchaFromSrc returns
NoDetection == [vendor |-> "null", type |-> "null"]

\* (a classifier that does not look at size=invisible)
detectCaptchaFromSrcNoInvisible(src) ==
    IF src = "" THEN NoDetection
    ELSE IF /\ includes(src, "/recaptcha/api2") \/ includes(src, "/recaptcha/enterprise")
            /\ includes(src, "/bframe")
    THEN [vendor |-> "recaptcha", type |-> "image"]
    ELSE IF /\ includes(src, "/recaptcha/api2") \/ includes(src, "/recaptcha/enterprise")
            /\ includes(src, "/anchor")
    THEN [vendor |-> "recaptcha", type |-> "checkbox"]
    ELSE IF includes(src, "hcaptcha.com")
    THEN [vendor |-> "hcaptcha", type |-> "checkbox"]
    ELSE IF \/ includes(src, "turnstile")
            \/ includes(src, "challenges.cloudflare.com")
            \/ includes(src, "cdn-cgi/challenge-platform")
    THEN [vendor |-> "cloudflare", type |-> "turnstile"]
    ELSE NoDetection

\* (a classifier that looks for /anchor before /bframe)
detectCaptchaFromSrcAnchorFirst(src) ==
    IF src = "" THEN NoDetection
    ELSE IF /\ includes(src, "/recaptcha/api2") \/ includes(src, "/recaptcha/enterprise")
            /\ includes(src, "/anchor")
    THEN [vendor |-> "recaptcha",
          type |-> IF includes(src, "size=invisible") THEN "invisible"
                   ELSE "checkbox"]
    ELSE IF /\ includes(src, "/recaptcha/api2") \/ includes(src, "/recaptcha/enterprise")
            /\ includes(src, "/bframe")
    THEN [vendor |-> "recaptcha", type |-> "image"]
    ELSE IF includes(src, "hcaptcha.com")
    THEN [vendor |-> "hcaptcha", type |-> "checkbox"]
    ELSE IF \/ includes(src, "turnstile")
            \/ includes(src, "challenges.cloudflare.com")
            \/ includes(src, "cdn-cgi/challenge-platform")
    THEN [vendor |-> "cloudflare", type |-> "turnstile"]
    ELSE NoDetection

\* detectCaptchaFromSrc: null for an empty src; recaptcha (api2 or
\* enterprise) bframe is image, anchor is invisible or checkbox, anything
\* else of recaptcha falls through; then hcaptcha; then cloudflare.
detectCaptchaFromSrc(src) ==
    IF src = "" THEN NoDetection
    ELSE IF /\ includes(src, "/recaptcha/api2") \/ includes(src, "/recaptcha/enterprise")
            /\ includes(src, "/bframe")
    THEN [vendor |-> "recaptcha", type |-> "image"]
    ELSE IF /\ includes(src, "/recaptcha/api2") \/ includes(src, "/recaptcha/enterprise")
            /\ includes(src, "/anchor")
    THEN [vendor |-> "recaptcha",
          type |-> IF includes(src, "size=invisible") THEN "invisible"
                   ELSE "checkbox"]
    ELSE IF includes(src, "hcaptcha.com")
    THEN [vendor |-> "hcaptcha", type |-> "checkbox"]
    ELSE IF \/ includes(src, "turnstile")
            \/ includes(src, "challenges.cloudflare.com")
            \/ includes(src, "cdn-cgi/challenge-platform")
    THEN [vendor |-> "cloudflare", type |-> "turnstile"]
    ELSE NoDetection

\* page.locator(selector): the iframes of the page the selector matches, in
\* document order
locator(page, selector) ==
    SelectSeq(page.iframes, LAMBDA f : includes(f.src, selector))

\* (a merge that takes the lookups' results in the order they complete)
RECURSIVE allSettledInCompletionOrder(_, _)
allSettledInCompletionOrder(promises, order) ==
    IF Len(order) = 0 THEN << >>
    ELSE << promises[Head(order)] >>
         \o allSettledInCompletionOrder(promises, Tail(order))

\* Promise.allSettled: resolves when every promise has settled; the k-th
\* entry of its array is the outcome of the k-th promise, whatever the order
\* in which the promises settle.
allSettled(promises, order) ==
    [k \in { i \in DOMAIN promises : \E j \in DOMAIN order : order[j] = i }
       |-> promises[k]]

\* .flat() of a list of lists
RECURSIVE flat(_)
flat(lists) ==
    IF Len(lists) = 0 THEN << >> ELSE Head(lists) \o flat(Tail(lists))

\* (a scan that looks for Cloudflare first)
SelectorsCloudflareFirst ==
    << "challenges.cloudflare.com", "/recaptcha/", "hcaptcha.com" >>

\* the three locators getCaptchaIframes evaluates, in the order their
\* results are flattened
Selectors == << "/recaptcha/", "hcaptcha.com", "challenges.cloudflare.com" >>

\* checkLocator on the iframes one selector matches, nth(0), nth(1), ...:
\* waitFor (state visible) times out on the first iframe that is missing or
\* hidden and the loop breaks there; a visible iframe gives a detection when
\* its src classifies.
RECURSIVE checkLocator(_)
checkLocator(matched) ==
    IF Len(matched) = 0 THEN << >>
    ELSE IF ~Head(matched).visible THEN << >>
    ELSE LET src == Head(matched).src
             detection == detectCaptchaFromSrc(src)
         IN  (IF src # "" /\ detection # NoDetection
              THEN << [src |-> src, vendor |-> detection.vendor,
                       type |-> detection.type] >>
              ELSE << >>)
             \o checkLocator(Tail(matched))

\* getCaptchaIframes: waits for the body (throws when that times out),
\* starts the three lookups together, awaits all of them and flattens the
\* fulfilled, non-null results in the order of the locators.  page.settles
\* is the order in which the three lookups complete on this page; `awaited`
\* is the number of lookups that had settled when the function returned.
getCaptchaIframes(page) ==
    IF ~page.body THEN Threw
    ELSE LET promise(selector) ==
                 LET captchaResults == checkLocator(locator(page, selector))
                 IN  [status |-> "fulfilled",
                      value |-> IF Len(captchaResults) > 0
                                THEN [results |-> captchaResults]
                                ELSE [results |-> "null"]]
             promises == [k \in DOMAIN Selectors |-> promise(Selectors[k])]
             allPromises == allSettled(promises, page.settles)
             values == SelectSeq([k \in DOMAIN allPromises |-> allPromises[k].value],
                                 LAMBDA v : v # [results |-> "null"])
         IN  [threw |-> FALSE,
              value |-> flat([k \in DOMAIN values |-> values[k].results]),
              awaited |-> Len(allPromises)]

\* the pause between two scans, and the default maxWait, in ms
scanPause == 500
defaultMaxWait == 3000

\* The loop of waitForCaptchaIframes from its k-th scan on, `elapsed` ms
\* after the start.  pages[k] is the page as the k-th scan sees it (the last
\* one stays); a scan takes scanTime ms.
RECURSIVE waitLoop(_, _, _, _, _)
waitLoop(pages, scanTime, maxWait, k, elapsed) ==
    LET results == getCaptchaIframes(pages[IF k < Len(pages) THEN k ELSE Len(pages)])
    IN  IF results.threw THEN [threw |-> TRUE, value |-> << >>, scans |-> k]
        ELSE IF Len(results.value) > 0
        THEN [threw |-> FALSE, value |-> results.value, scans |-> k]
        ELSE IF elapsed + scanTime >= maxWait
        THEN [threw |-> FALSE, value |-> << >>, scans |-> k]
        ELSE waitLoop(pages, scanTime, maxWait, k + 1,
                      elapsed + scanTime + scanPause)

waitForCaptchaIframes(pages, scanTime, maxWait) ==
    waitLoop(pages, scanTime, maxWait, 1, 0)

(***************************************************************************)
(* The revision of waitForCaptchaIframes that watches the DOM with a       *)
(* MutationObserver.  Its run is a record: where it is, the clock, the     *)
(* page's two window properties and the observer.                          *)
(***************************************************************************)
\* the time between two scans without a DOM change and the pause of the
\* loop, in ms
scanInterval == 1000
loopPause == 100

ObserverFn == "waitForCaptchaIframes (MutationObserver)"

\* what one getCaptchaIframes of the loop can do
ScanOutcomes == { "empty", "found", "throws" }

\* (a loop that scans in every iteration)
scanInEveryIteration(domChanged, currentTime, lastScanTime) == TRUE

\* the condition of the scan
shouldScan(domChanged, currentTime, lastScanTime) ==
    domChanged \/ (currentTime - lastScanTime) >= scanInterval

\* the finally block: the page calls window._disconnectCaptchaObserver when
\* it is defined; an evaluate that fails on a closed page is ignored
disconnectCaptchaObserver(w) ==
    IF w.page = "open" /\ w.disconnectDefined /\ w.observer = "connected"
    THEN [w EXCEPT !.observer = "disconnected"]
    ELSE w

\* the call up to its loop: startTime, the first page.evaluate (which
\* creates and connects the observer, or throws before the try block is
\* entered), lastScanTime = 0
installObserver(startTime, installed) ==
    [at |-> IF installed THEN "loop" ELSE "thrown",
     value |-> << >>,
     page |-> "open",
     observer |-> IF installed THEN "connected" ELSE "none",
     captchaDomChanged |-> FALSE,
     disconnectDefined |-> installed,
     now |-> startTime,
     lastScanTime |-> 0,
     elapsed |-> 0,
     iterations |-> 0,
     scanned |-> FALSE,       \* history: the last iteration made a scan
     domChanged |-> FALSE,    \* history: the flag the last iteration read
     due |-> FALSE,           \* history: a scan interval had passed then
     scannedEmpty |-> FALSE]  \* history: some scan found nothing

\* one iteration of the loop, the finally block included when it leaves the
\* function; the scan does `outcome` and takes scanTime ms
iteration(w, startTime, maxWait, outcome, scanTime) ==
    IF w.page = "closed"
    THEN \* reading the flag throws
         disconnectCaptchaObserver(
             [w EXCEPT !.at = "thrown", !.iterations = @ + 1, !.scanned = FALSE])
    ELSE LET domChanged == w.captchaDomChanged
             currentTime == w.now
             elapsed == currentTime - startTime
             scans == shouldScan(domChanged, currentTime, w.lastScanTime)
             read == [w EXCEPT !.captchaDomChanged = FALSE,
                               !.iterations = @ + 1,
                               !.elapsed = elapsed,
                               !.domChanged = domChanged,
                               !.due = (currentTime - w.lastScanTime) >= scanInterval,
                               !.scanned = scans]
             afterScan ==
                 IF ~scans THEN read
                 ELSE IF outcome = "throws"
                 THEN [read EXCEPT !.at = "thrown", !.now = @ + scanTime]
                 ELSE IF outcome = "found"
                 THEN [read EXCEPT !.at = "returned", !.value = << PageOrder[1] >>,
                                   !.now = @ + scanTime,
                                   !.lastScanTime = currentTime + scanTime]
                 ELSE [read EXCEPT !.now = @ + scanTime,
                                   !.lastScanTime = currentTime + scanTime,
                                   !.scannedEmpty = TRUE]
         IN  IF afterScan.at # "loop" THEN disconnectCaptchaObserver(afterScan)
             ELSE IF elapsed >= maxWait
             THEN disconnectCaptchaObserver([afterScan EXCEPT !.at = "returned"])
             ELSE [afterScan EXCEPT !.now = @ + loopPause]

(***************************************************************************)
(* The Vision Oracle client.  A model response is its text: empty, not     *)
(* JSON, or the JSON of a value.                                           *)
(***************************************************************************)
Response(kind, value) == [kind |-> kind, value |-> value]

Drag(from, to, st) ==
    [action |-> "drag", startLocation |-> from, endLocation |-> to,
     actionState |-> st]

MultiClick(locations, st) ==
    [action |-> "multiClick", locations |-> locations, actionState |-> st]

\* singleCaptchaActionSchema: the strict discriminated union of click, drag,
\* type (each with an actionState of the enum) and captcha_solved.
singleCaptchaActionSchema(v) ==
    \/ /\ "action" \in DOMAIN v
       /\ v.action = "click"
       /\ DOMAIN v = { "action", "location", "value", "actionState" }
       /\ v.value = "-"
       /\ v.location # NoLoc
       /\ v.actionState \in CaptchaActionState
    \/ /\ "action" \in DOMAIN v
       /\ v.action = "type"
       /\ DOMAIN v = { "action", "location", "value", "actionState" }
       /\ v.value # "-"
       /\ v.location # NoLoc
       /\ v.actionState \in CaptchaActionState
    \/ /\ "action" \in DOMAIN v
       /\ v.action = "drag"
       /\ DOMAIN v = { "action", "startLocation", "endLocation", "actionState" }
       /\ v.actionState \in CaptchaActionState
    \/ v = CaptchaSolved

\* the two GeminiConnector classes of the repository
Connectors == { "llm-connector", "impl/gemini" }

\* the schema getCaptchaAction and adjustCaptchaActions hand to queryWithImage
wrappedSchema == "singleCaptchaActionSchema"

\* queryWithImage, called with a schema.  The connector of
\* llm-connector.ts throws on an empty text and on text that is not JSON and
\* returns whatever JSON.parse gives; the schema is never applied.  The
\* connector of impl/gemini takes no schema and returns the text itself.
queryWithImage(connector, response, schema) ==
    IF connector = "impl/gemini" THEN Returned(response)
    ELSE IF response.kind \in { "empty", "notJSON" } THEN Threw
    ELSE Returned(response.value)

\* getCaptchaAction and adjustCaptchaActions: the value queryWithImage
\* returns, and its error rethrown.
getCaptchaAction(connector, response) ==
    queryWithImage(connector, response, wrappedSchema)

adjustCaptchaActions(connector, response) ==
    queryWithImage(connector, response, wrappedSchema)

(***************************************************************************)
(* History helpers.                                                        *)
(***************************************************************************)
Scenario ==
    << Click(Loc5050, "creatingAction"), Click(Loc5248, "adjustAction"),
       Click(Loc5248, "actionConfirmed"), CaptchaSolved >>

NextScript(k, answer) ==
    IF k >= 0 /\ k < Len(Scenario) /\ answer = Scenario[k + 1] THEN k + 1 ELSE 0 - 1

IsCreating(answer) ==
    /\ answer.action \in { "click", "type" }
    /\ answer.actionState = "creatingAction"


(***************************************************************************)
(* Initial state: solveCaptchas has been called, nothing has run yet.      *)
(***************************************************************************)
Init ==
    /\ revision \in { "solver", "part004" }
    /\ pc = "start"
    /\ captchaFrames = << >>
    /\ captchaFrameData = Undefined
    /\ contentFrame = "null"
    /\ pendingAction = NullAction
    /\ pastActions = << >>
    /\ isSolved = FALSE
    /\ attempts = 0
    /\ step = "init"
    /\ scanDiffered = FALSE
    /\ frameGone = FALSE
    /\ didReset = FALSE
    /\ stable = TRUE
    /\ performed = << >>
    /\ script = 0
    /\ allCreating = TRUE
    /\ dom = FreshPage
    /\ captchaScreenshot = NoScreenshot
    /\ ops = << >>
    /\ fn = "solveCaptchas"
    /\ args = << >>
    /\ result = NotCalled

\* a step that makes no re-scan (solveCaptchas is the one call in progress)
NoRescan ==
    /\ UNCHANGED << fn, args, result >>
    /\ scanDiffered' = FALSE
    /\ frameGone' = FALSE
    /\ didReset' = FALSE
    /\ UNCHANGED stable

\* (an initial wait that enters the loop although it found no frame)
StartEntersLoopOnEmptyScan ==
    /\ pc = "start"
    /\ \E scan \in Scans :
       \E found \in IF Len(scan) > 0 /\ revision # "solver"
                    THEN BOOLEAN ELSE { TRUE } :
         IF Len(scan) = 0
         THEN /\ pc' = "loop"
              /\ ops' = await("waitForCaptchaIframes", "page", FALSE)
              /\ UNCHANGED << captchaFrames, captchaFrameData, contentFrame,
                              captchaScreenshot >>
         ELSE /\ pc' = "loop"
              /\ captchaFrames' = scan
              /\ captchaFrameData' = scan[1]
              /\ contentFrame' = getContentFrame(revision, scan[1], found)
              /\ captchaScreenshot' = screenshotCaptcha(scan[1], TRUE, dom, << >>)
              /\ ops' = await("waitForCaptchaIframes", "page", FALSE)
                        \o await("screenshotCaptcha", "captchaFrameData.frame", FALSE)
    /\ step' = "start"
    /\ NoRescan
    /\ UNCHANGED << revision, pendingAction, pastActions, isSolved, attempts,
                    performed, script, allCreating, dom >>

\* (an initial wait that takes the last detection of the list)
StartTakesLastFrame ==
    /\ pc = "start"
    /\ \E scan \in Scans :
       \E found \in IF Len(scan) > 0 /\ revision # "solver"
                    THEN BOOLEAN ELSE { TRUE } :
         IF Len(scan) = 0
         THEN /\ pc' = "returned"
              /\ ops' = await("waitForCaptchaIframes", "page", FALSE)
              /\ UNCHANGED << captchaFrames, captchaFrameData, contentFrame,
                              captchaScreenshot >>
         ELSE /\ pc' = "loop"
              /\ captchaFrames' = scan
              /\ captchaFrameData' = scan[Len(scan)]
              /\ contentFrame' = getContentFrame(revision, scan[Len(scan)], found)
              /\ captchaScreenshot' =
                     screenshotCaptcha(scan[Len(scan)], TRUE, dom, << >>)
              /\ ops' = await("waitForCaptchaIframes", "page", FALSE)
                        \o await("screenshotCaptcha", "captchaFrameData.frame", FALSE)
    /\ step' = "start"
    /\ NoRescan
    /\ UNCHANGED << revision, pendingAction, pastActions, isSolved, attempts,
                    performed, script, allCreating, dom >>

\* The initial bounded wait: no frame found returns at once; otherwise the
\* first detection becomes the active one and its screenshot is taken.
Start ==
    /\ pc = "start"
    /\ \E scan \in Scans :
       \E found \in IF Len(scan) > 0 /\ revision # "solver"
                    THEN BOOLEAN ELSE { TRUE } :
         IF Len(scan) = 0
         THEN /\ pc' = "returned"
              /\ ops' = await("waitForCaptchaIframes", "page", FALSE)
              /\ UNCHANGED << captchaFrames, captchaFrameData, contentFrame,
                              captchaScreenshot >>
         ELSE /\ pc' = "loop"
              /\ captchaFrames' = scan
              /\ captchaFrameData' = scan[1]
              /\ contentFrame' = getContentFrame(revision, scan[1], found)
              /\ captchaScreenshot' = screenshotCaptcha(scan[1], TRUE, dom, << >>)
              /\ ops' = await("waitForCaptchaIframes", "page", FALSE)
                        \o await("screenshotCaptcha", "captchaFrameData.frame", FALSE)
    /\ step' = "start"
    /\ NoRescan
    /\ UNCHANGED << revision, pendingAction, pastActions, isSolved, attempts,
                    performed, script, allCreating, dom >>

(***************************************************************************)
(* The second half of every cycle: re-scan, session reset, overlay and     *)
(* screenshot.  p, past, perf are the values the first half left; sc, ac   *)
(* are the history of the Oracle's answers up to this cycle; frameDocument *)
(* is the content frame's document and firstOps the calls of the first     *)
(* half.                                                                   *)
(***************************************************************************)
EndOfCycle(p, past, perf, sc, ac, frameDocument, firstOps) ==
    \E newCaptchaFrames \in Scans :
    \E reset \in { SessionReset(revision, captchaFrames, newCaptchaFrames) } :
    \E found \in IF reset /\ revision # "solver" THEN BOOLEAN ELSE { TRUE } :
    \E data \in { IF reset
                  THEN First(getNewCaptchaFrames(captchaFrames, newCaptchaFrames))
                  ELSE captchaFrameData } :
    \E frame \in { IF reset THEN getContentFrame(revision, data, found)
                   ELSE contentFrame } :
    \E pending \in { IF reset THEN NullAction ELSE p } :
    \E shows \in { IF reset THEN << >> ELSE perf } :
    \* the active iframe is on the page when the re-scan listed it
    \E visible \in { data \in Range(newCaptchaFrames) } :
    \* an active iframe that is not visible is hidden or has left the page
    \E frameBox \in IF visible THEN { IframeBox } ELSE { NoBox, Detached } :
    \E documents \in { [page |-> dom.page,
                         frame |-> IF reset THEN FreshDocument
                                   ELSE frameDocument] } :
    \E removed \in {
            IF revision = "solver"
            THEN LET r == removeHighlightsOnFrame(frame, documents.frame)
                 IN  IF r.threw THEN Threw
                     ELSE Returned([documents EXCEPT !.frame = r.value])
            ELSE Returned([documents EXCEPT
                             !.page = removeHighlights(@).value]) } :
    \E labelled \in {
            IF removed.threw THEN Threw
            ELSE labelCaptchaActionOnFrame(revision, frame, frameBox,
                                           pending, removed.value) } :
        \* screenshotCaptcha(page, captchaFrameData.frame) reads the frame
        \* of the active detection
        LET threw == removed.threw \/ labelled.threw \/ data = Undefined
            target == IF revision = "solver" THEN "contentFrame" ELSE "page"
        IN  /\ captchaFrameData' = data
            /\ contentFrame' = frame
            /\ captchaFrames' = IF reset THEN newCaptchaFrames ELSE captchaFrames
            /\ pendingAction' = pending
            /\ pastActions' = IF reset THEN << >> ELSE past
            /\ performed' = shows
            /\ isSolved' = FALSE
            /\ attempts' = IF reset THEN 0 ELSE NextAttempts(attempts)
            /\ pc' = IF threw THEN "thrown" ELSE "loop"
            /\ dom' = IF labelled.threw
                      THEN (IF removed.threw THEN documents ELSE removed.value)
                      ELSE labelled.value
            /\ captchaScreenshot' =
                   IF threw THEN captchaScreenshot
                   ELSE screenshotCaptcha(data, visible, labelled.value, shows)
            /\ ops' = firstOps
                      \o await("waitForCaptchaIframes", "page", FALSE)
                      \o await("removeHighlights", target, removed.threw)
                      \o (IF removed.threw THEN << >>
                          ELSE await("labelCaptchaActionOnFrame", "contentFrame",
                                     labelled.threw))
                      \o (IF threw THEN << >>
                          ELSE await("screenshotCaptcha", "captchaFrameData.frame",
                                     FALSE))
            /\ didReset' = reset
            /\ scanDiffered' = Differs(captchaFrames, newCaptchaFrames)
            /\ frameGone' = FrameLost(captchaFrames, newCaptchaFrames)
            /\ stable' = (stable /\ newCaptchaFrames = captchaFrames)
            /\ script' = IF stable' THEN sc ELSE 0 - 1
            /\ allCreating' = (stable' /\ ac)
            /\ UNCHANGED << revision, fn, args, result >>

\* A cycle that throws before the re-scan, in the call `firstOps` ends with.
ThrowsInCycle(firstOps) ==
    /\ attempts' = NextAttempts(attempts)
    /\ pc' = "thrown"
    /\ ops' = firstOps
    /\ NoRescan
    /\ UNCHANGED << revision, captchaFrames, captchaFrameData, contentFrame,
                    pendingAction, pastActions, isSolved, performed, script,
                    allCreating, dom, captchaScreenshot >>

InLoop == pc = "loop" /\ LoopCondition(isSolved, attempts)

\* the Oracle confirms at most MaxPast actions between two resets
Offered(answer) ==
    answer.actionState = "actionConfirmed" => Len(pastActions) < MaxPast

Propose ==
    /\ InLoop
    /\ Branch(pendingAction) = "propose"
    /\ \E answer \in OracleAnswers :
         /\ Offered(answer)
         /\ step' = "propose"
         /\ EndOfCycle(answer, pastActions, performed,
                       NextScript(script, answer),
                       allCreating /\ IsCreating(answer),
                       dom.frame,
                       await("getCaptchaAction", "captchaScreenshot", FALSE))

\* getCaptchaAction throws (unparseable model output): nothing in
\* solveCaptchas catches it.
ProposeFails ==
    /\ InLoop
    /\ Branch(pendingAction) = "propose"
    /\ step' = "proposeFailed"
    /\ ThrowsInCycle(await("getCaptchaAction", "captchaScreenshot", TRUE))

ConfirmOrAdjust ==
    /\ InLoop
    /\ Branch(pendingAction) = "confirm"
    /\ \E answer \in OracleAnswers :
         /\ Offered(answer)
         /\ step' = "confirm"
         /\ EndOfCycle(AfterConfirm(revision, pendingAction, answer),
                       pastActions, performed,
                       NextScript(script, answer),
                       allCreating /\ IsCreating(answer),
                       dom.frame,
                       await("adjustCaptchaActions", "captchaScreenshot", FALSE))

\* adjustCaptchaActions throws.
ConfirmFails ==
    /\ InLoop
    /\ Branch(pendingAction) = "confirm"
    /\ step' = "confirmFailed"
    /\ ThrowsInCycle(await("adjustCaptchaActions", "captchaScreenshot", TRUE))

\* The bounding box of the active iframe is read, the executor runs, and the
\* action is pushed on pastActions whatever the executor did.
Execute ==
    /\ InLoop
    /\ Branch(pendingAction) = "execute"
    /\ step' = "execute"
    /\ \E boundingBox \in { IframeBox, NoBox }, hit \in Hits :
       \E r \in { handleCaptchaAction(contentFrame, boundingBox, pendingAction,
                                      hit) } :
       \E firstOps \in { await("boundingBox", "captchaFrameData.frame", FALSE)
                         \o await("handleCaptchaAction", "contentFrame", r.threw) } :
         IF r.threw
         THEN ThrowsInCycle(firstOps)
         ELSE \E past \in { push(pastActions, pendingAction) } :
              \E perf \in { IF r.done THEN Append(performed, pendingAction)
                            ELSE performed } :
              \E frameDocument \in { highlightElements(dom.frame, r.events) } :
                EndOfCycle(NullAction, past, perf, script, allCreating,
                           frameDocument, firstOps)

\* pendingAction is captcha_solved: isSolved is set and the loop is left by
\* break, before the re-scan.
SolvedExit ==
    /\ InLoop
    /\ Branch(pendingAction) = "solved"
    /\ step' = "solved"
    /\ isSolved' = TRUE
    /\ attempts' = NextAttempts(attempts)
    /\ pc' = "returned"
    /\ ops' = << >>
    /\ NoRescan
    /\ UNCHANGED << revision, captchaFrames, captchaFrameData, contentFrame,
                    pendingAction, pastActions, performed, script,
                    allCreating, dom, captchaScreenshot >>

\* No branch of the chain matches (an actionState outside the union).
NoBranch ==
    /\ InLoop
    /\ Branch(pendingAction) = "none"
    /\ step' = "none"
    /\ EndOfCycle(pendingAction, pastActions, performed, script, allCreating,
                  dom.frame, << >>)

\* The while condition is false: solveCaptchas returns.
LoopExit ==
    /\ pc = "loop"
    /\ ~LoopCondition(isSolved, attempts)
    /\ pc' = "returned"
    /\ step' = "exit"
    /\ ops' = << >>
    /\ NoRescan
    /\ UNCHANGED << revision, captchaFrames, captchaFrameData, contentFrame,
                    pendingAction, pastActions, isSolved, attempts, performed,
                    script, allCreating, dom, captchaScreenshot >>

Next ==
    \/ Start
    \/ Propose
    \/ ProposeFails
    \/ ConfirmOrAdjust
    \/ ConfirmFails
    \/ Execute
    \/ SolvedExit
    \/ NoBranch
    \/ LoopExit

Spec == Init /\ [][Next]_vars

\* The loop is sequential code that keeps running until it returns or throws.
FairSpec == Spec /\ WF_vars(Next)

Terminated == pc \in { "returned", "thrown" }

TypeOK ==
    /\ pc \in { "start", "loop", "returned", "thrown" }
    /\ attempts \in 0..maxAttempts
    /\ Len(pastActions) <= MaxPast

(***************************************************************************)
(* CallSpec: one call of one exported function, on arguments drawn from    *)
(* the sets below.  The solve-loop variables stay as solveCaptchas found   *)
(* them.                                                                   *)
(***************************************************************************)
\* longest list handed to a function
MaxList == 2
\* most scans the page changes between
MaxPages == 3

ListsOf(S, n) == UNION { [1..k -> S] : k \in 0..n }

TileA == [index |-> 2, x |-> "50", y |-> "50"]
TileB == [index |-> 1, x |-> "52", y |-> "48"]

ActionStates == CaptchaActionState \cup { "bogus" }

\* the actions the executor is tried on: every action type with every
\* actionState
ExecActions ==
    UNION { { Click(Loc5248, st), Type(Loc5050, "hello", st),
              MultiClick(<< TileA, TileB >>, st), Drag(Loc5050, Loc5248, st),
              Click(Loc525, st), Drag(Loc5248, Loc525, st),
              [action |-> "hover", location |-> Loc5050, value |-> "-",
               actionState |-> st],
              [CaptchaSolved EXCEPT !.actionState = st] } : st \in ActionStates }
    \cup { CaptchaSolved }

Boxes == { NoBox, IframeBox, [x |-> 0, y |-> 10, width |-> 250, height |-> 40] }
Percentages == { 0 - 50, 0, 33, 50, 100, 150 }

Iframe(src, visible) == [src |-> src, visible |-> visible]
\* a page: whether its body appears, its iframes in document order, and the
\* order in which the three lookups of a scan complete on it
Page(body, iframes) ==
    [body |-> body, iframes |-> iframes, settles |-> << 1, 2, 3 >>]

\* the orders in which three concurrent lookups can complete
CompletionOrders ==
    { o \in [1..3 -> 1..3] : \A i, j \in 1..3 : i # j => o[i] # o[j] }


ScannedSrcs ==
    { SrcAnchor, SrcBframe, SrcHCaptcha, SrcCloudflare, SrcPlatformOnly, SrcOther }
ScannedPages ==
    { [Page(b, f) EXCEPT !.settles = o] :
                   o \in CompletionOrders, b \in BOOLEAN,
                   f \in ListsOf({ Iframe(u, v) : u \in ScannedSrcs, v \in BOOLEAN },
                                 MaxList) }

WaitedPages ==
    { Page(FALSE, << >>), Page(TRUE, << >>),
      Page(TRUE, << Iframe(SrcAnchor, TRUE) >>) }

Responses ==
    { Response("empty", NullAction), Response("notJSON", NullAction) }
    \cup { Response("json", v) :
             v \in { Click(Loc5050, "creatingAction"), Click(Loc5050, "bogus"),
                     Type(Loc5050, "hello", "adjustAction"),
                     Drag(Loc5050, Loc5248, "actionConfirmed"),
                     MultiClick(<< TileA, TileB >>, "creatingAction"),
                     [action |-> "hover", location |-> Loc5050, value |-> "-",
                      actionState |-> "actionConfirmed"],
                     CaptchaSolved } }

\* the documents highlights are removed from
Documents ==
    { Document(<< "challenge" >>, FALSE, << >>),
      Document(<< >>, TRUE, << >>),
      Document(<< "challenge" >>, TRUE, << Label(Click(Loc5050, "creatingAction")) >>),
      Document(<< "challenge" >>, TRUE,
               << ElementBox, Label(Click(Loc5248, "adjustAction")) >>) }

Calls ==
    { [fn |-> "handleCaptchaAction",
       args |-> [frame |-> f, boundingBox |-> b, action |-> a, hit |-> h]] :
        f \in { "frame", "null" }, b \in { NoBox, IframeBox },
        a \in ExecActions, h \in Hits }
    \cup { [fn |-> "handleClick",
            args |-> [frame |-> f, boundingBox |-> b, location |-> l, hit |-> h]] :
             f \in { "frame", "null" }, b \in { NoBox, IframeBox },
             l \in { Loc5050, Loc5248 }, h \in Hits }
    \cup { [fn |-> f, args |-> [frame |-> fr, document |-> d, times |-> t]] :
             f \in { "removeHighlightsOnFrame", "removeHighlights" },
             fr \in { "frame", "null" }, d \in Documents, t \in 1..2 }
    \cup { [fn |-> "getPageCoordinatesFromIframePercentage",
            args |-> [iframeBoundingBox |-> b, xPercentage |-> x,
                      yPercentage |-> y]] :
             b \in Boxes, x \in Percentages, y \in Percentages }
    \cup { [fn |-> "getNewCaptchaFrames",
            args |-> [oldCaptchas |-> o, newCaptchas |-> n]] :
             o \in ListsOf(Detections, MaxList),
             n \in ListsOf(Detections, MaxList) }
    \cup { [fn |-> "detectCaptchaFromSrc", args |-> [src |-> u]] : u \in Srcs }
    \cup { [fn |-> "getCaptchaIframes", args |-> [page |-> p]] :
             p \in ScannedPages }
    \cup { [fn |-> "waitForCaptchaIframes",
            args |-> [pages |-> ps, scanTime |-> t, maxWait |-> m]] :
             ps \in ListsOf(WaitedPages, MaxPages) \ { << >> },
             t \in { 0, 300 }, m \in { 0, scanPause, defaultMaxWait } }
    \cup { [fn |-> ObserverFn, args |-> [startTime |-> 10 * scanInterval, maxWait |-> m]] :
             m \in { 0, scanInterval + loopPause, 2 * scanInterval + 5 * loopPause } }
    \cup { [fn |-> f, args |-> [connector |-> c, response |-> r]] :
             f \in { "getCaptchaAction", "adjustCaptchaActions" },
             c \in Connectors, r \in Responses }

sessionVars ==
    << revision, pc, captchaFrames, captchaFrameData, contentFrame,
       pendingAction, pastActions, isSolved, attempts, step, scanDiffered,
       frameGone, didReset, stable, performed, script, allCreating,
       dom, captchaScreenshot, ops >>

CallInit ==
    /\ revision = "solver"
    /\ pc = "start"
    /\ captchaFrames = << >>
    /\ captchaFrameData = Undefined
    /\ contentFrame = "null"
    /\ pendingAction = NullAction
    /\ pastActions = << >>
    /\ isSolved = FALSE
    /\ attempts = 0
    /\ step = "init"
    /\ scanDiffered = FALSE
    /\ frameGone = FALSE
    /\ didReset = FALSE
    /\ stable = TRUE
    /\ performed = << >>
    /\ script = 0
    /\ allCreating = TRUE
    /\ dom = FreshPage
    /\ captchaScreenshot = NoScreenshot
    /\ ops = << >>
    /\ \E call \in Calls : fn = call.fn /\ args = call.args
    /\ result = NotCalled

\* the call of function f runs and leaves r
Runs(f, r) ==
    /\ fn = f
    /\ result = NotCalled
    /\ result' = r
    /\ UNCHANGED << sessionVars, fn, args >>

CallHandleCaptchaAction ==
    Runs("handleCaptchaAction",
         handleCaptchaAction(args.frame, args.boundingBox, args.action, args.hit))

CallHandleClick ==
    Runs("handleClick",
         handleClick(args.frame, args.boundingBox, args.location, args.hit))

\* the function is called args.times times in a row, each call on the
\* document the call before left
CallRemoveHighlightsOnFrame ==
    Runs("removeHighlightsOnFrame",
         LET once == removeHighlightsOnFrame(args.frame, args.document)
         IN  IF args.times = 1 \/ once.threw THEN once
             ELSE removeHighlightsOnFrame(args.frame, once.value))

CallRemoveHighlights ==
    Runs("removeHighlights",
         LET once == removeHighlights(args.document)
         IN  IF args.times = 1 \/ once.threw THEN once
             ELSE removeHighlights(once.value))

CallGetPageCoordinates ==
    Runs("getPageCoordinatesFromIframePercentage",
         Returned(getPageCoordinatesFromIframePercentage(
                      args.iframeBoundingBox, args.xPercentage, args.yPercentage)))

CallGetNewCaptchaFrames ==
    Runs("getNewCaptchaFrames",
         Returned(getNewCaptchaFrames(args.oldCaptchas, args.newCaptchas)))

CallDetectCaptchaFromSrc ==
    Runs("detectCaptchaFromSrc", Returned(detectCaptchaFromSrc(args.src)))

CallGetCaptchaIframes ==
    Runs("getCaptchaIframes", getCaptchaIframes(args.page))

CallWaitForCaptchaIframes ==
    Runs("waitForCaptchaIframes",
         waitForCaptchaIframes(args.pages, args.scanTime, args.maxWait))

\* the call starts: the observer is installed, or installing it throws
CallWaitWithObserver ==
    /\ fn = ObserverFn
    /\ result = NotCalled
    /\ \E installed \in BOOLEAN :
           result' = installObserver(args.startTime, installed)
    /\ UNCHANGED << sessionVars, fn, args >>

Waiting == fn = ObserverFn /\ result # NotCalled /\ result.at = "loop"

\* the loop of the call makes one iteration
WaitIteration ==
    /\ Waiting
    /\ \E outcome \in ScanOutcomes, scanTime \in { 0, 3 * loopPause } :
           result' = iteration(result, args.startTime, args.maxWait, outcome, scanTime)
    /\ UNCHANGED << sessionVars, fn, args >>

\* the page adds a node or changes the src of an iframe between two
\* iterations: the observer's callback sets window._captchaDomChanged
DomChanges ==
    /\ Waiting
    /\ result.page = "open"
    /\ result.observer = "connected"
    /\ ~result.captchaDomChanged
    /\ result' = [result EXCEPT !.captchaDomChanged = TRUE]
    /\ UNCHANGED << sessionVars, fn, args >>

\* the page navigates: the new document has neither the two window
\* properties nor the observer, which went with the old document
PageNavigates ==
    /\ Waiting
    /\ result.page = "open"
    /\ result.observer = "connected"
    /\ result' = [result EXCEPT !.observer = "gone",
                                !.captchaDomChanged = FALSE,
                                !.disconnectDefined = FALSE]
    /\ UNCHANGED << sessionVars, fn, args >>

\* the page is closed, and every later page.evaluate throws
PageCloses ==
    /\ Waiting
    /\ result.page = "open"
    /\ result' = [result EXCEPT !.page = "closed",
                                !.observer = IF @ = "connected" THEN "gone" ELSE @]
    /\ UNCHANGED << sessionVars, fn, args >>

CallGetCaptchaAction ==
    Runs("getCaptchaAction", getCaptchaAction(args.connector, args.response))

CallAdjustCaptchaActions ==
    Runs("adjustCaptchaActions",
         adjustCaptchaActions(args.connector, args.response))

CallNext ==
    \/ CallHandleCaptchaAction
    \/ CallHandleClick
    \/ CallRemoveHighlightsOnFrame
    \/ CallRemoveHighlights
    \/ CallGetPageCoordinates
    \/ CallGetNewCaptchaFrames
    \/ CallDetectCaptchaFromSrc
    \/ CallGetCaptchaIframes
    \/ CallWaitForCaptchaIframes
    \/ CallWaitWithObserver
    \/ WaitIteration
    \/ DomChanges
    \/ PageNavigates
    \/ PageCloses
    \/ CallGetCaptchaAction
    \/ CallAdjustCaptchaActions

CallSpec == CallInit /\ [][CallNext]_vars

\* the call of function f has run
Called(f) == fn = f /\ result # NotCalled

(***************************************************************************)
(* Properties of the solve loop.                                           *)
(***************************************************************************)
\* the cycles that make a re-scan
Rescanned == step \in { "propose", "confirm", "execute", "none" }

\* the session state right after a reset
ResetDone ==
    /\ attempts = 0
    /\ pendingAction = NullAction
    /\ pastActions = << >>

IsPrefix(a, b) == Len(a) <= Len(b) /\ SubSeq(b, 1, Len(a)) = a

\* C1: the executor is invoked only in a cycle that starts with a non-null
\* pendingAction that is not captcha_solved and whose actionState is
\* actionConfirmed.
C1_ExecutorOnlyWhenConfirmed ==
    [][step' = "execute" =>
          /\ pendingAction # NullAction
          /\ pendingAction.action # "captcha_solved"
          /\ pendingAction.actionState = "actionConfirmed"]_vars

\* a cycle has run the executor and the action was carried out
C1_Witness == step = "execute" /\ performed # << >>

C3_AlwaysCreatingExhaustsAttempts ==
    ( /\ Terminated
      /\ Len(captchaFrames) > 0
      /\ stable
      /\ allCreating
      /\ step \notin { "proposeFailed", "confirmFailed" } )
    => ( /\ pc = "returned"
         /\ attempts = maxAttempts
         /\ ~isSolved
         /\ pastActions = << >> )

\* the end-to-end scenario has been played to its end on a stable frame set
ScenarioDone == Terminated /\ stable /\ script = Len(Scenario)

\* C4 (as stated): the scenario Click(50,50) creating, Click(52,48) adjust,
\* Click(52,48) confirmed, captcha_solved on a stable frame ends with one
\* executed action at (52,48) and isSolved = true after 4 cycles.
C4_ScenarioSolvedAfterFourCycles ==
    ScenarioDone =>
        /\ pc = "returned"
        /\ isSolved
        /\ pastActions = << Click(Loc5248, "actionConfirmed") >>
        /\ performed \in { << >>, pastActions }
        /\ attempts = 4

\* C4 (amended): the same scenario ends with one executed action at (52,48)
\* and isSolved = true after 6 cycles: propose, adjust, confirm, execute,
\* propose (captcha_solved), and the cycle that sees captcha_solved.
C4_ScenarioSolvedAfterSixCycles ==
    ScenarioDone =>
        /\ pc = "returned"
        /\ isSolved
        /\ pastActions = << Click(Loc5248, "actionConfirmed") >>
        /\ performed \in { << >>, pastActions }
        /\ attempts = 6

\* the scenario ended solved, with the click carried out
C4_Witness == ScenarioDone /\ isSolved /\ performed # << >>

\* C5: a failing Oracle call costs one attempt, leaves pendingAction and
\* pastActions as they were, and the loop goes on; nothing is thrown out of
\* solveCaptchas.
C5_OracleErrorConsumesAttempt ==
    [][step' \in { "proposeFailed", "confirmFailed" } =>
          /\ pc' = "loop"
          /\ attempts' = attempts + 1
          /\ pendingAction' = pendingAction
          /\ pastActions' = pastActions]_vars

\* C6: a re-scan whose detection set differs under the identity rule (equal
\* lengths included) switches to a frame that is new, clears pendingAction
\* and pastActions and zeroes attempts; an equal set resets nothing.
C6_ResetIffDetectionSetDiffers ==
    [][Rescanned' /\ pc' = "loop" =>
          IF scanDiffered'
          THEN /\ ResetDone'
               /\ captchaFrameData' \in Range(captchaFrames') \ Range(captchaFrames)
          ELSE /\ attempts' = attempts + 1
               /\ captchaFrameData' = captchaFrameData
               /\ captchaFrames' = captchaFrames]_vars

\* C7: when the re-scan finds the active iframe gone, the loop resets the
\* session and goes on without throwing, and the active detection is never
\* left undefined.
C7_LostFrameResetsWithoutThrowing ==
    [][Rescanned' /\ frameGone' =>
          /\ pc' = "loop"
          /\ ResetDone'
          /\ captchaFrameData' # Undefined]_vars

\* C8: when Confirm-or-adjust answers actionConfirmed (not captcha_solved),
\* the pendingAction that results keeps the action type, coordinates and
\* value of the action submitted; only actionState changes.
C8_ConfirmationKeepsSubmittedAction ==
    [][( /\ step' = "confirm"
         /\ pendingAction'.actionState = "actionConfirmed"
         /\ pendingAction'.action # "captcha_solved" )
       => pendingAction' = [pendingAction EXCEPT !.actionState = "actionConfirmed"]]_vars

\* C9 (as stated): every pending action that has reached actionConfirmed is
\* passed to the executor in the next step, then appended to pastActions and
\* removed from pendingAction; none is dropped.
C9_ConfirmedIsAlwaysExecuted ==
    [][(pc = "loop" /\ Branch(pendingAction) = "execute") =>
          /\ step' = "execute"
          /\ pendingAction' = NullAction
          /\ didReset' \/ pastActions' = Append(pastActions, pendingAction)]_vars

\* C9 (amended): a confirmed pending action is executed in the next cycle,
\* appended to pastActions (unless the reset of that cycle clears the list)
\* and removed from pendingAction, as long as the loop has attempts left.
C9_ConfirmedIsExecutedWhileAttemptsLast ==
    [][( /\ pc = "loop"
         /\ LoopCondition(isSolved, attempts)
         /\ Branch(pendingAction) = "execute" ) =>
          /\ step' = "execute"
          /\ pendingAction' = NullAction
          /\ didReset' \/ pastActions' = Append(pastActions, pendingAction)]_vars

\* a confirmed action was executed, logged and cleared, and the loop goes on
C9_Witness ==
    /\ step = "execute"
    /\ pc = "loop"
    /\ pendingAction = NullAction
    /\ pastActions = << Click(Loc5248, "actionConfirmed") >>

\* C10: between two resets pastActions only grows at its end, and it holds
\* exactly the actions the executor carried out, skipped ones excluded.
C10_PastActionsAreThePerformedActions ==
    [][/\ ~didReset' => IsPrefix(pastActions, pastActions')
       /\ pastActions' = performed']_vars

(***************************************************************************)
(* Properties of the executor, the detection functions and the Oracle      *)
(* client (CallSpec).                                                      *)
(***************************************************************************)
\* C11: handleCaptchaAction issues no event and returns normally for every
\* action that is captcha_solved or whose actionState is not
\* actionConfirmed.
C11_ExecutorRefusesUnconfirmed ==
    ( /\ Called("handleCaptchaAction")
      /\ \/ args.action.action = "captcha_solved"
         \/ args.action.actionState # "actionConfirmed" )
    => result.events = << >> /\ ~result.threw

\* an unconfirmed click on a visible iframe was refused
C11_Witness ==
    /\ Called("handleCaptchaAction")
    /\ args.action = Click(Loc5248, "adjustAction")
    /\ args.boundingBox = IframeBox
    /\ args.frame = "frame"
    /\ result.events = << >>

\* C12: with the bounding box unavailable, handleCaptchaAction returns
\* without throwing and without any pointer or keyboard event, for every
\* confirmed click, type, multiClick and drag.
C12_NoBoxNoEvent ==
    ( /\ Called("handleCaptchaAction")
      /\ args.boundingBox = NoBox
      /\ args.action.action \in { "click", "type", "multiClick", "drag" }
      /\ args.action.actionState = "actionConfirmed" )
    => result.events = << >> /\ ~result.threw

\* the closed action union: a known action with one of the three action
\* states, or captcha_solved
InClosedUnion(v) ==
    /\ "action" \in DOMAIN v
    /\ \/ v = CaptchaSolved
       \/ /\ v.action \in { "click", "drag", "type", "multiClick" }
          /\ v.actionState \in CaptchaActionState

\* C13: getCaptchaAction and adjustCaptchaActions fail on every Oracle
\* response whose action or actionState lies outside the closed union, so
\* whatever they return lies inside it.
C13_OracleAnswerInClosedUnion ==
    ( /\ Called("getCaptchaAction") \/ Called("adjustCaptchaActions")
      /\ ~result.threw )
    => InClosedUnion(result.value)

\* the positions of newCaptchas whose frame matches no frame of oldCaptchas
NewPositions(oldCaptchas, newCaptchas) ==
    { i \in DOMAIN newCaptchas : newCaptchas[i] \notin Range(oldCaptchas) }

ClassificationTable(cloudflareVendor) ==
    /\ args.src = SrcInvisible
         => result.value = [vendor |-> "recaptcha", type |-> "invisible"]
    /\ args.src = SrcHCaptcha
         => result.value = [vendor |-> "hcaptcha", type |-> "checkbox"]
    /\ args.src = SrcCloudflare
         => result.value = [vendor |-> cloudflareVendor, type |-> "turnstile"]
    /\ args.src \in { SrcOther, SrcEmpty } => result.value = NoDetection

VisibleCaptchas(page) ==
    { i \in DOMAIN page.iframes :
        /\ page.iframes[i].visible
        /\ detectCaptchaFromSrc(page.iframes[i].src) # NoDetection }

\* C16: getCaptchaIframes returns exactly one detection for every visible
\* iframe whose src classifies as a CAPTCHA, with that classification, and
\* none for any other iframe.
C16_OneDetectionPerVisibleCaptcha ==
    ( Called("getCaptchaIframes") /\ args.page.body ) =>
        LET page == args.page
            out == result.value
        IN  /\ ~result.threw
            /\ Len(out) = Cardinality(VisibleCaptchas(page))
            /\ \A i \in VisibleCaptchas(page) :
                 \E k \in DOMAIN out : out[k].src = page.iframes[i].src
            /\ \A k \in DOMAIN out :
                 /\ \E i \in VisibleCaptchas(page) : page.iframes[i].src = out[k].src
                 /\ [vendor |-> out[k].vendor, type |-> out[k].type]
                      = detectCaptchaFromSrc(out[k].src)

\* C17: waitForCaptchaIframes scans at least once, returns the first
\* non-empty scan result, returns empty only once maxWait has elapsed after
\* an empty scan, and never throws.
C17_BoundedWaitNeverThrows ==
    Called("waitForCaptchaIframes") =>
        LET seen(k) == getCaptchaIframes(
                           args.pages[IF k < Len(args.pages) THEN k
                                      ELSE Len(args.pages)])
            n == result.scans
        IN  /\ ~result.threw
            /\ n >= 1
            /\ \A k \in 1..(n - 1) : seen(k).value = << >>
            /\ result.value = seen(n).value
            /\ result.value = << >>
                 => (n - 1) * (args.scanTime + scanPause) + args.scanTime
                      >= args.maxWait

\* C18: when the initial wait finds no challenge frame, solveCaptchas
\* returns at once: no loop cycle, no Oracle call, no executor call, and
\* nothing runs after the return.
C18_NoFrameReturnsAtOnce ==
    [][/\ pc # "returned"
       /\ (pc = "start" /\ captchaFrames' = << >>) =>
            /\ pc' = "returned"
            /\ step' = "start"
            /\ attempts' = 0
            /\ script' = 0
            /\ pendingAction' = NullAction
            /\ pastActions' = << >>
            /\ performed' = << >>
            /\ ~isSolved']_vars

\* solveCaptchas returned after an empty initial scan
C18_Witness ==
    /\ pc = "returned"
    /\ step = "start"
    /\ captchaFrames = << >>
    /\ attempts = 0

\* C19: getPageCoordinatesFromIframePercentage interpolates linearly
\* without clamping and returns null exactly when the box is absent.
\* (coordinates in hundredths of a pixel)
C19_LinearMappingWithoutClamping ==
    Called("getPageCoordinatesFromIframePercentage") =>
        LET box == args.iframeBoundingBox
            xPct == args.xPercentage
            yPct == args.yPercentage
            out == result.value
        IN  /\ ~result.threw
            /\ (out = NoCoordinates) <=> (box = NoBox)
            /\ box # NoBox =>
                 /\ out.x - 100 * box.x = box.width * xPct
                 /\ out.y - 100 * box.y = box.height * yPct
            /\ (box = IframeBox /\ xPct = 0 /\ yPct = 0)
                 => out = [x |-> 10000, y |-> 20000]
            /\ (box = IframeBox /\ xPct = 50 /\ yPct = 50)
                 => out = [x |-> 25000, y |-> 40000]
            /\ (box = IframeBox /\ xPct = 100 /\ yPct = 100)
                 => out = [x |-> 40000, y |-> 60000]
            /\ (box = IframeBox /\ xPct = 150 /\ yPct = 0 - 50)
                 => out = [x |-> 55000, y |-> 0]

\* a percentage above 100 was mapped beyond the right edge of the box
C19_Witness ==
    /\ Called("getPageCoordinatesFromIframePercentage")
    /\ args.iframeBoundingBox = IframeBox
    /\ args.xPercentage = 150
    /\ result.value.x = 55000

\* the clicks among the driver events, in the order they were made
Clicks(events) ==
    SelectSeq(events, LAMBDA e : e.ev \in { "elem.click", "mouse.click" })

\* C20: for a confirmed multiClick, handleCaptchaAction clicks once per
\* location, one after another in the order of the locations array.
C20_MultiClickInArrayOrder ==
    ( /\ Called("handleCaptchaAction")
      /\ args.action.action = "multiClick"
      /\ args.action.actionState = "actionConfirmed"
      /\ args.boundingBox # NoBox
      /\ args.frame \notin Nullish ) =>
        LET locations == args.action.locations
            clicks == Clicks(result.events)
        IN  /\ ~result.threw
            /\ Len(clicks) = Len(locations)
            /\ \A k \in DOMAIN locations :
                 clicks[k].at =
                   getPageCoordinatesFromIframePercentage(
                       args.boundingBox, parseInt(locations[k].x),
                       parseInt(locations[k].y))

\* two tiles were clicked, the one with the larger index first
C20_Witness ==
    /\ Called("handleCaptchaAction")
    /\ args.action = MultiClick(<< TileA, TileB >>, "actionConfirmed")
    /\ args.boundingBox = IframeBox
    /\ args.frame = "frame"
    /\ Len(Clicks(result.events)) = 2

\* C21: for a confirmed drag with both coordinates available,
\* handleCaptchaAction issues exactly: pointer move to the mapped start
\* point, mouse down, pointer move to the mapped end point, mouse up.
C21_DragIsMovePressMoveRelease ==
    ( /\ Called("handleCaptchaAction")
      /\ args.action.action = "drag"
      /\ args.action.actionState = "actionConfirmed"
      /\ args.boundingBox # NoBox ) =>
        LET startPoint ==
                getPageCoordinatesFromIframePercentage(
                    args.boundingBox, parseInt(args.action.startLocation.x),
                    parseInt(args.action.startLocation.y))
            endPoint ==
                getPageCoordinatesFromIframePercentage(
                    args.boundingBox, parseInt(args.action.endLocation.x),
                    parseInt(args.action.endLocation.y))
        IN  /\ ~result.threw
            /\ result.events = << Ev("moveTo", startPoint),
                                  Ev("mouse.down", startPoint),
                                  Ev("moveTo", endPoint),
                                  Ev("mouse.up", endPoint) >>

\* a drag from (50,50) to (52,48) of the iframe was carried out
C21_Witness ==
    /\ Called("handleCaptchaAction")
    /\ args.action = Drag(Loc5050, Loc5248, "actionConfirmed")
    /\ args.boundingBox = IframeBox
    /\ Len(result.events) = 4
    /\ result.events[2].ev = "mouse.down"
    /\ result.events[4].at = [x |-> 25600, y |-> 39200]

\* C30: for a click location with available coordinates, handleClick moves
\* the pointer to the mapped point and then makes exactly one click: on the
\* element under the point when one is resolved and its click succeeds,
\* otherwise one mouse click at the page coordinates.
C30_MoveThenExactlyOneClick ==
    ( /\ Called("handleClick")
      /\ args.boundingBox # NoBox
      /\ args.frame \notin Nullish ) =>
        LET point == getPageCoordinatesFromIframePercentage(
                         args.boundingBox, parseInt(args.location.x),
                         parseInt(args.location.y))
            clicks == Clicks(result.events)
        IN  /\ ~result.threw
            /\ Head(result.events) = Ev("moveTo", point)
            /\ Len(clicks) = 1
            /\ result.events[Len(result.events)] = clicks[1]
            /\ clicks[1] = IF args.hit = "element"
                           THEN Ev("elem.click", point)
                           ELSE Ev("mouse.click", point)
            /\ \A k \in DOMAIN result.events :
                 result.events[k].ev = "elem.click throws"
                   <=> (args.hit = "elementFails" /\ k = 2)

\* the direct click threw and the mouse click at the coordinates followed
C30_Witness ==
    /\ Called("handleClick")
    /\ args.hit = "elementFails"
    /\ args.boundingBox = IframeBox
    /\ args.frame = "frame"
    /\ Len(result.events) = 3
    /\ result.events[3].ev = "mouse.click"

\* what the lookup for the k-th selector finds on the page of the call
Found(k) == checkLocator(locator(args.page, Selectors[k]))

CloudflareSettles ==
    CHOOSE j \in 1..3 : Selectors[args.page.settles[j]] = "challenges.cloudflare.com"

Rank(vendor) ==
    CASE vendor = "recaptcha" -> 1
      [] vendor = "hcaptcha" -> 2
      [] vendor = "cloudflare" -> 3

C25_RemoveHighlightsIdempotent ==
    ( /\ Called("removeHighlightsOnFrame") \/ Called("removeHighlights")
      /\ args.frame \notin Nullish ) =>
        LET once == IF fn = "removeHighlights"
                    THEN removeHighlights(args.document)
                    ELSE removeHighlightsOnFrame(args.frame, args.document)
        IN  /\ ~result.threw
            /\ ~result.value.container
            /\ result.value.overlays = << >>
            /\ result.value.body = args.document.body
            /\ ~args.document.container => result.value = args.document
            /\ result.value = once.value

\* highlights were removed twice in a row from a document with overlays
C25_Witness ==
    /\ Called("removeHighlights")
    /\ args.times = 2
    /\ Len(args.document.overlays) = 2
    /\ result.value = Document(<< "challenge" >>, FALSE, << >>)

\* the Oracle calls among the calls of a cycle
OracleCalls(calls) ==
    SelectSeq(calls, LAMBDA c : c.op \in { "getCaptchaAction", "adjustCaptchaActions" })

\* C28: every cycle takes exactly one of the four steps, chosen by the
\* pendingAction it starts with: Propose if and only if pendingAction is
\* null, the solved exit on captcha_solved, Confirm-or-adjust if and only if
\* the actionState is creatingAction or adjustAction, the executor on
\* actionConfirmed; and the cycle makes at most one Oracle call.
C28_EachCycleTakesOneOfFourSteps ==
    [][InLoop =>
         /\ step' \in { "propose", "proposeFailed", "solved", "confirm",
                        "confirmFailed", "execute" }
         /\ step' \in { "propose", "proposeFailed" } <=> pendingAction = NullAction
         /\ pendingAction.action = "captcha_solved" =>
               step' = "solved" /\ isSolved' /\ pc' = "returned"
         /\ step' \in { "confirm", "confirmFailed" } <=>
               /\ pendingAction.action # "captcha_solved"
               /\ pendingAction.actionState \in { "creatingAction", "adjustAction" }
         /\ ( /\ pendingAction.action # "captcha_solved"
              /\ pendingAction.actionState = "actionConfirmed" ) =>
               step' = "execute"
         /\ Len(OracleCalls(ops')) <= 1
         /\ step' \in { "solved", "execute" } => Len(OracleCalls(ops')) = 0]_vars

\* the overlays of an action: its marker for a click, type or drag, nothing
\* for null and captcha_solved
OverlaysOf(action) ==
    IF action.action \in { "click", "type", "drag" } THEN << Label(action) >>
    ELSE << >>

\* C26: whenever the loop has captured a screenshot of the challenge, the
\* overlays on it are exactly those of the current pendingAction: the
\* overlays of earlier cycles and the element boxes of getElementAtPoint are
\* gone.
C26_ScreenshotShowsOnlyPendingOverlay ==
    (pc = "loop" /\ captchaScreenshot # NoScreenshot) =>
        captchaScreenshot.overlays = OverlaysOf(pendingAction)

\* the place of a call in the statement order of one cycle
Phase(op) ==
    CASE op \in { "getCaptchaAction", "adjustCaptchaActions", "boundingBox" } -> 1
      [] op = "handleCaptchaAction" -> 2
      [] op = "waitForCaptchaIframes" -> 3
      [] op = "removeHighlights" -> 4
      [] op = "labelCaptchaActionOnFrame" -> 5
      [] op = "screenshotCaptcha" -> 6

C22_OneCaptchaAtATime ==
    [][/\ (pc = "start" /\ pc' = "loop") =>
              captchaFrameData' = captchaFrames'[1]
       /\ (pc = "loop" /\ ~didReset') =>
              captchaFrameData' = captchaFrameData /\ contentFrame' = contentFrame
       /\ pc' = "loop" =>
              /\ captchaScreenshot'.of \in { "", captchaFrameData'.src }
              /\ contentFrame' \in { captchaFrameData'.src } \cup Nullish
       /\ step' = "execute" => contentFrame = captchaFrameData.src
       /\ \A i \in DOMAIN ops' :
              ops'[i].on =
                  CASE ops'[i].op \in { "getCaptchaAction", "adjustCaptchaActions" }
                         -> "captchaScreenshot"
                    [] ops'[i].op \in { "boundingBox", "screenshotCaptcha" }
                         -> "captchaFrameData.frame"
                    [] ops'[i].op \in { "handleCaptchaAction",
                                        "labelCaptchaActionOnFrame" }
                         -> "contentFrame"
                    [] ops'[i].op = "removeHighlights"
                         -> IF revision = "solver" THEN "contentFrame" ELSE "page"
                    [] ops'[i].op = "waitForCaptchaIframes" -> "page"]_vars

\* the initial scan returned two detections and the executor has carried out
\* an action on the first one
C22_Witness ==
    /\ step = "execute"
    /\ performed # << >>
    /\ stable
    /\ Len(captchaFrames) = 2
    /\ captchaFrameData = captchaFrames[1]
    /\ contentFrame = captchaFrames[1].src

\* the action markers among the overlays of a screenshot
Labels(overlays) == SelectSeq(overlays, LAMBDA o : o.kind = "label")

\* C29: when a cycle is about to call Confirm-or-adjust, the screenshot it
\* hands over shows the marker of that pendingAction and of no earlier
\* action; when it is about to call Propose, the screenshot is of the active
\* detection and shows the effect of every action executed since the last
\* session reset.
C29_OracleSeesCurrentScreenshot ==
    /\ (InLoop /\ Branch(pendingAction) = "confirm") =>
           /\ captchaScreenshot.of = captchaFrameData.src
           /\ Labels(captchaScreenshot.overlays) = << Label(pendingAction) >>
    /\ (InLoop /\ Branch(pendingAction) = "propose") =>
           /\ captchaScreenshot.of = captchaFrameData.src
           /\ captchaScreenshot.shows = performed

\* the src names a reCAPTCHA path
RecaptchaPath(src) ==
    includes(src, "/recaptcha/api2") \/ includes(src, "/recaptcha/enterprise")

\* the src matches one of the Cloudflare patterns
CloudflarePattern(src) ==
    \/ includes(src, "turnstile")
    \/ includes(src, "challenges.cloudflare.com")
    \/ includes(src, "cdn-cgi/challenge-platform")

\* C31: detectCaptchaFromSrc tries reCAPTCHA, then hCaptcha, then Cloudflare
\* and returns the first match.  On a reCAPTCHA path /bframe gives image
\* whatever else occurs, /anchor gives invisible exactly with size=invisible
\* and checkbox otherwise, and a path with neither is not reported as
\* reCAPTCHA: it is classified by the hCaptcha and Cloudflare patterns alone.
C31_VendorsInFixedOrder ==
    ( Called("detectCaptchaFromSrc") /\ args.src # "" ) =>
        LET src == args.src
            bframe == RecaptchaPath(src) /\ includes(src, "/bframe")
            anchor == RecaptchaPath(src) /\ ~includes(src, "/bframe")
                      /\ includes(src, "/anchor")
        IN  /\ bframe => result.value = [vendor |-> "recaptcha", type |-> "image"]
            /\ anchor =>
                 result.value = [vendor |-> "recaptcha",
                                 type |-> IF includes(src, "size=invisible")
                                          THEN "invisible" ELSE "checkbox"]
            /\ ~bframe /\ ~anchor =>
                 result.value =
                          IF includes(src, "hcaptcha.com")
                          THEN [vendor |-> "hcaptcha", type |-> "checkbox"]
                          ELSE IF CloudflarePattern(src)
                          THEN [vendor |-> "cloudflare", type |-> "turnstile"]
                          ELSE NoDetection

\* a /bframe src in which /anchor and size=invisible occur as well was
\* classified as the image challenge
C31_Witness ==
    /\ Called("detectCaptchaFromSrc")
    /\ args.src = SrcBframeInvisible
    /\ result.value = [vendor |-> "recaptcha", type |-> "image"]

\* the calls of a cycle that are given contentFrame after the re-scan
OverlayCalls(calls) ==
    SelectSeq(calls, LAMBDA c : /\ c.on = "contentFrame"
                                /\ c.op \in { "removeHighlights",
                                              "labelCaptchaActionOnFrame" })

\* C32: wherever a cycle executes an action or removes or draws overlays,
\* contentFrame is a frame (neither null nor undefined) and it is the content
\* frame of the active detection: of the one the cycle started with for the
\* executor, of the one the re-scan left for the overlays.
C32_ContentFrameIsTheActiveFrame ==
    [][InLoop =>
         /\ step' = "execute" =>
                contentFrame \notin Nullish /\ contentFrame = captchaFrameData.src
         /\ Len(OverlayCalls(ops')) > 0 =>
                /\ contentFrame' \notin Nullish
                /\ contentFrame' = captchaFrameData'.src]_vars

\* C33: the executor runs only on an action the cycle before submitted to
\* Confirm-or-adjust: an action that Propose returned already confirmed is
\* not executed without a confirmation round.
C33_ExecutedActionsWereSubmittedForConfirmation ==
    [][step' = "execute" => step = "confirm"]_vars

\* C34: once the Oracle has answered captcha_solved and no session reset has
\* dropped that answer, solveCaptchas returns with isSolved = true, whatever
\* the number of the cycle the answer arrived in.
C34_SolvedAnswerEndsSolved ==
    (pc = "returned" /\ pendingAction.action = "captcha_solved") => isSolved

\* the executor calls among the calls of a cycle
ExecutorCalls(calls) == SelectSeq(calls, LAMBDA c : c.op = "handleCaptchaAction")

\* C35: the loop never stalls.  A cycle that starts with a non-null
\* pendingAction calls the Oracle, runs the executor or leaves the loop; it
\* never goes round with the same pendingAction having done none of these.
C35_NoCycleWithoutProgress ==
    [][(InLoop /\ pendingAction # NullAction) =>
          \/ Len(OracleCalls(ops')) > 0
          \/ Len(ExecutorCalls(ops')) > 0
          \/ pc' = "returned"
          \/ pendingAction' # pendingAction]_vars

\* a point of the executor (hundredths of a pixel) in thousandths
Thousandths(point) == [x |-> 10 * point.x, y |-> 10 * point.y]

\* C36: for a confirmed click, type or drag the executor acts at the point
\* of the iframe at which the overlay marked the action: on the same box,
\* the point the executor moves to is the point labelCaptchaAction draws at,
\* for the click location and for both ends of a drag.
C36_ExecutorActsWhereOverlayWasDrawn ==
    ( /\ Called("handleCaptchaAction")
      /\ args.action.action \in { "click", "type", "drag" }
      /\ args.action.actionState = "actionConfirmed"
      /\ args.boundingBox # NoBox ) =>
        IF args.action.action = "drag"
        THEN /\ Thousandths(result.events[1].at) =
                    labelCoordinates(args.boundingBox, args.action.startLocation)
             /\ Thousandths(result.events[3].at) =
                    labelCoordinates(args.boundingBox, args.action.endLocation)
        ELSE Thousandths(result.events[1].at) =
                    labelCoordinates(args.boundingBox, args.action.location)

\* the events of one kind among the events of a call
EventsOf(events, kind) == SelectSeq(events, LAMBDA e : e.ev = kind)

\* C37: handleCaptchaAction never returns with the mouse button pressed.  In
\* the events of a call that returned, every mouse.down is directly followed
\* by a move and one mouse.up, no release comes without a press, and a drag
\* without a bounding box (no coordinates) makes no pointer event at all.
C37_NoButtonLeftPressed ==
    ( Called("handleCaptchaAction") /\ ~result.threw ) =>
        /\ Len(EventsOf(result.events, "mouse.down")) =
               Len(EventsOf(result.events, "mouse.up"))
        /\ \A i \in DOMAIN result.events :
               result.events[i].ev = "mouse.down" =>
                   /\ i + 2 <= Len(result.events)
                   /\ result.events[i + 1].ev = "moveTo"
                   /\ result.events[i + 2].ev = "mouse.up"
        /\ \A i \in DOMAIN result.events :
               result.events[i].ev = "mouse.up" =>
                   i > 2 /\ result.events[i - 2].ev = "mouse.down"
        /\ Len(EventsOf(result.events, "mouse.down")) > 0 =>
               /\ args.action.action = "drag"
               /\ args.boundingBox # NoBox
        /\ (args.action.action = "drag" /\ args.boundingBox = NoBox) =>
               result.events = << >>

\* a confirmed drag pressed and released the button once
C37_Witness ==
    /\ Called("handleCaptchaAction")
    /\ ~result.threw
    /\ args.action = Drag(Loc5050, Loc5248, "actionConfirmed")
    /\ Len(EventsOf(result.events, "mouse.down")) = 1
    /\ Len(EventsOf(result.events, "mouse.up")) = 1

\* C38: a Propose cycle and a Confirm-or-adjust cycle change pendingAction
\* and attempts only: unless the re-scan of the cycle resets the session they
\* leave pastActions, the detection list, the active detection and isSolved
\* as they were.  pastActions changes without a reset only in an execute
\* cycle, which appends exactly one element, the action it was given.
C38_OnlyExecuteAppendsToPastActions ==
    [][pc = "loop" =>
         /\ ( /\ step' \in { "propose", "proposeFailed", "confirm", "confirmFailed" }
              /\ ~didReset' ) =>
                /\ pastActions' = pastActions
                /\ captchaFrames' = captchaFrames
                /\ captchaFrameData' = captchaFrameData
                /\ isSolved' = isSolved
         /\ (pastActions' # pastActions /\ ~didReset') => step' = "execute"
         /\ (step' = "execute" /\ ~didReset') =>
                /\ Len(pastActions') = Len(pastActions) + 1
                /\ pastActions' = Append(pastActions, pendingAction)]_vars

\* a Propose, a Confirm-or-adjust and an execute cycle have run without a
\* reset: the list holds the one action of the execute cycle, and the next
\* Propose cycle has left it alone
C38_Witness ==
    /\ pc = "loop"
    /\ step = "propose"
    /\ ~didReset
    /\ stable
    /\ Len(pastActions) = 1
    /\ pendingAction # NullAction

\* the call of the MutationObserver revision has left the function
WaitOver == fn = ObserverFn /\ result # NotCalled /\ result.at # "loop"

\* C39: the MutationObserver revision of waitForCaptchaIframes leaves no
\* connected observer behind on any exit (found, timeout, exception);
\* its first iteration scans; a later iteration scans only when the DOM
\* change flag was set or scanInterval ms have passed since the last scan
\* (and then it does scan); and it returns the empty list only after a scan
\* that found nothing and with the elapsed time at or beyond maxWait.
C39_ObserverWaitCleansUpAndScansOnDemand ==
    /\ WaitOver => result.observer # "connected"
    /\ (Called(ObserverFn) /\ result.iterations = 1 /\ result.page = "open") =>
           result.scanned
    /\ (Called(ObserverFn) /\ result.iterations > 1 /\ result.page = "open") =>
           (result.scanned <=> (result.domChanged \/ result.due))
    /\ (WaitOver /\ result.at = "returned" /\ result.value = << >>) =>
           /\ result.scannedEmpty
           /\ result.elapsed >= args.maxWait
           /\ result.now - args.startTime >= args.maxWait

\* the call timed out after a scan for the interval and a scan for a DOM
\* change, and has disconnected its observer
C39_Witness ==
    /\ WaitOver
    /\ result.at = "returned"
    /\ result.value = << >>
    /\ result.observer = "disconnected"
    /\ result.iterations > 12
    /\ result.scanned
    /\ result.domChanged
    /\ ~result.due

====
